---- MODULE Spec2Model ----
(***************************************************************************)
(* Real-time communication core of taskPadi_be: the call lifecycle         *)
(* (video_call_service.rs over video_call_repository.rs), the signaling    *)
(* connection handler (websocket/handler.rs) and the media relay session   *)
(* (video_call/media_session.rs).                                          *)
(*                                                                         *)
(* Spec      : every service operation is one atomic step (sequential      *)
(*             requests); the "ringing" flip spawned by initiate_call is   *)
(*             an independent asynchronous step.                           *)
(* SpecConc  : requests run their reads and their writes as separate       *)
(*             steps, interleaved with the steps of other requests and     *)
(*             with the advance of the clock.                              *)
(* SpecRelay : media relay sessions over the pub/sub backend.              *)
(* SpecWs    : signaling connections and the connection registry.  The     *)
(*             registry itself (websocket/connection.rs) is not among the  *)
(*             sources; it is modelled from its contract, every handle     *)
(*             standing for one connection.                                *)
(***************************************************************************)
EXTENDS Integers, Sequences, FiniteSets, TLC

\* ---------------------------------------------------------------- bounds
NumUsers == 3
MaxCalls == 2
MaxOps == 3
MaxReqs == 3
MaxInFlight == 2
MaxSessions == 2
MaxPublishes == 2
MaxConns == 2
MaxFrames == 1
MaxTime == 2

\* ------------------------------------------------------------ vocabulary
\* Option::None; apart from every id, every timestamp and every duration
None == -1
Users == 1..NumUsers
\* the group known to the group repository, and its member rows
Groups == {1}
GroupRows == <<1, 2, 3>>
\* call_type strings a request may carry; "fax" stands for any invalid one
CallTypes == {"video", "fax"}
Terminal == {"rejected", "ended"}
Unanswered == {"initiating", "ringing"}

VARIABLES
    calls,   \* video_calls rows, indexed by call id
    parts,   \* call_participants rows: parts[c][u]
    wsLog,   \* the send_to_user invocations made by the call service
    flips,   \* calls whose spawned "ringing" task has not yet run
    now,     \* the clock read by NOW() and Utc::now()
    nOps,    \* completed operations (Spec)
    last,    \* the operation completed last and its result (Spec)
    reqs,    \* requests in flight or finished (SpecConc)
    sess,    \* media relay sessions (SpecRelay)
    nPub,    \* frames published into call rooms so far (SpecRelay)
    conns,   \* signaling connections, one per handle_socket (SpecWs)
    registry,\* handles held by the connection registry (SpecWs)
    nFrames, \* client frames and heartbeat ticks so far (SpecWs)
    wsEvent  \* the registry send made last (SpecWs)

vars == <<calls, parts, wsLog, flips, now, nOps, last, reqs, sess, nPub,
          conns, registry, nFrames, wsEvent>>

wsVars == <<conns, registry, nFrames, wsEvent>>

relayVars == <<sess, nPub, wsVars>>

\* ------------------------------------------------- collaborators (data)
\* group_repo.get_group_members: the member rows of a group, in row order
get_group_members(g) == SelectSeq(GroupRows, LAMBDA u : u \in Users)

\* format!("/api/video-calls/{}/ws", call.id)
media_ws_path(c) == <<"/api/video-calls/", c, "/ws">>

\* ------------------------------------------------------------- messages
WsMessage(kind, c, caller, receiver, endedBy, path) ==
    [kind |-> kind, call_id |-> c, caller_id |-> caller,
     receiver_id |-> receiver, ended_by |-> endedBy, media_ws_path |-> path]

CallInitiated(c, caller, receiver) ==
    WsMessage("CallInitiated", c, caller, receiver, None, media_ws_path(c))

CallAccepted(c, caller, receiver) ==
    WsMessage("CallAccepted", c, caller, receiver, None, media_ws_path(c))

CallRejected(c, caller, receiver) ==
    WsMessage("CallRejected", c, caller, receiver, None, <<>>)

CallEnded(c, endedBy) ==
    WsMessage("CallEnded", c, None, None, endedBy, <<>>)

\* ws_manager.send_to_user as seen by the call service: one invocation
\* record per call, in invocation order
send_to_user(log, u, m) == Append(log, [to |-> u, msg |-> m])

\* ----------------------------------------------------------- repository
NoPart == [role |-> "none", status |-> "none"]

\* INSERT ... VALUES ($1, $2, $3, 'joined')
\* ON CONFLICT (call_id, user_id) DO UPDATE SET status = 'joined'
\* (the status requested by the caller is not part of the statement)
repo_add_participant(ps, u, role, status) ==
    IF ps[u] = NoPart
    THEN [ps EXCEPT ![u] = [role |-> role, status |-> "joined"]]
    ELSE [ps EXCEPT ![u].status = "joined"]

\* INSERT INTO video_calls ... RETURNING *, then the caller's participant row
NewCall(caller, receiver, group, callType, status) ==
    [caller_id |-> caller, receiver_id |-> receiver, group_id |-> group,
     call_type |-> callType, status |-> status, started_at |-> None,
     ended_at |-> None, duration_seconds |-> None]

repo_create_call(cs, caller, receiver, group, callType, status) ==
    Append(cs, NewCall(caller, receiver, group, callType, status))

repo_create_parts(pss, caller) ==
    Append(pss, repo_add_participant([u \in Users |-> NoPart], caller, "caller", "joined"))

\* SELECT ... WHERE p.call_id = $1 AND p.status = 'joined'
repo_get_participants(ps) == {u \in Users : ps[u].status = "joined"}

\* UPDATE call_participants SET status = $3 WHERE call_id = $1 AND user_id = $2
repo_update_participant_status(ps, u, status) ==
    IF ps[u] = NoPart THEN ps ELSE [ps EXCEPT ![u].status = status]

\* SELECT * FROM video_calls WHERE id = $1
repo_find_by_id(cs, c) == IF c \in DOMAIN cs THEN c ELSE None

\* most recent call between the two users in initiating/ringing/active
repo_find_active_call(cs, a, b) ==
    LET hits == {c \in DOMAIN cs :
                    /\ \/ (cs[c].caller_id = a /\ cs[c].receiver_id = b)
                       \/ (cs[c].caller_id = b /\ cs[c].receiver_id = a)
                    /\ cs[c].status \in {"initiating", "ringing", "active"}}
    IN IF hits = {} THEN None ELSE CHOOSE c \in hits : \A d \in hits : d <= c

\* UPDATE video_calls SET status = $1 WHERE id = $2
repo_update_status(cs, c, status) == [cs EXCEPT ![c].status = status]

\* UPDATE video_calls SET status = 'active', started_at = NOW() WHERE id = $1
repo_start_call(cs, c, t) ==
    [cs EXCEPT ![c].status = "active", ![c].started_at = t]

\* UPDATE video_calls SET status = 'ended', ended_at = NOW(), duration_seconds = $1
repo_end_call(cs, c, t, duration) ==
    [cs EXCEPT ![c].status = "ended", ![c].ended_at = t,
               ![c].duration_seconds = duration]

\* ------------------------------------------------------ service outcomes
\* the database and message state an operation leaves, and its result
Outcome(cs, pss, log, fl, c, res) ==
    [calls |-> cs, parts |-> pss, wsLog |-> log, flips |-> fl,
     call |-> c, res |-> res]

Unchanged(res, c) == Outcome(calls, parts, wsLog, flips, c, res)

\* the member loop of initiate_call: notify and pre-add every member but
\* the caller, in row order
RECURSIVE notify_members(_, _, _, _, _)
notify_members(members, i, c, caller, acc) ==
    IF i > Len(members) THEN acc
    ELSE IF members[i] = caller
         THEN notify_members(members, i + 1, c, caller, acc)
         ELSE notify_members(members, i + 1, c, caller,
                [log |-> send_to_user(acc.log, members[i],
                                      CallInitiated(c, caller, members[i])),
                 ps  |-> repo_add_participant(acc.ps, members[i],
                                              "participant", "invited")])

\* validation and the active-call lookup that precede creation
initiate_check(caller, receiver, group, callType) ==
    IF receiver = None /\ group = None THEN "BadRequest"
    ELSE IF receiver = caller THEN "BadRequest"
    ELSE IF callType \notin {"video", "voice"} THEN "BadRequest"
    ELSE IF receiver # None /\ repo_find_active_call(calls, caller, receiver) # None
         THEN "BadRequest"
    ELSE "go"

\* creation, notification and pre-registration
initiate_effect(caller, receiver, group, callType, fault) ==
    LET c    == Len(calls) + 1
        cs1  == repo_create_call(calls, caller, receiver, group, callType, "initiating")
        pss1 == repo_create_parts(parts, caller)
        \* direct branch
        log2 == IF receiver # None
                THEN send_to_user(wsLog, receiver, CallInitiated(c, caller, receiver))
                ELSE wsLog
        ps2  == IF receiver # None
                THEN repo_add_participant(pss1[c], receiver, "participant", "invited")
                ELSE pss1[c]
        \* group branch
        acc  == IF group # None
                THEN notify_members(get_group_members(group), 1, c, caller,
                                    [log |-> log2, ps |-> ps2])
                ELSE [log |-> log2, ps |-> ps2]
    IN IF fault = "find_caller"
       THEN \* user_repo.find_by_id(caller_id).await? fails after create
            Outcome(cs1, pss1, wsLog, flips, c, "Internal")
       ELSE IF fault = "get_members" /\ group # None
       THEN Outcome(cs1, [pss1 EXCEPT ![c] = ps2], log2, flips, c, "Internal")
       ELSE Outcome(cs1, [pss1 EXCEPT ![c] = acc.ps], acc.log,
                    flips \cup {c}, c, "Ok")

initiate_outcome(caller, receiver, group, callType, fault) ==
    IF initiate_check(caller, receiver, group, callType) # "go"
    THEN Unchanged(initiate_check(caller, receiver, group, callType), None)
    ELSE initiate_effect(caller, receiver, group, callType, fault)

\* eligibility test shared by accept_call and reject_call
not_eligible(c, user) ==
    IF calls[c].receiver_id # None
    THEN calls[c].receiver_id # user
    ELSE user \notin repo_get_participants(parts[c])

\* the reads of accept_call: the call row, eligibility, the status test
accept_check(c, user) ==
    IF repo_find_by_id(calls, c) = None THEN "NotFound"
    ELSE IF not_eligible(c, user) THEN "Forbidden"
    ELSE IF calls[c].status # "ringing" /\ calls[c].status # "initiating"
         THEN "BadRequest"
    ELSE "go"

\* the writes of accept_call: start_call, CallAccepted, participant status
accept_effect(c, user, fault) ==
    LET cs1  == repo_start_call(calls, c, now)
        rcv  == IF cs1[c].receiver_id # None THEN cs1[c].receiver_id ELSE user
        log1 == send_to_user(wsLog, cs1[c].caller_id,
                             CallAccepted(c, cs1[c].caller_id, rcv))
        pss1 == [parts EXCEPT ![c] = repo_update_participant_status(@, user, "joined")]
    IN IF fault = "find_user"
       THEN Outcome(cs1, parts, wsLog, flips, c, "Internal")
       ELSE IF fault = "update_participant"
       THEN Outcome(cs1, parts, log1, flips, c, "Internal")
       ELSE Outcome(cs1, pss1, log1, flips, c, "Ok")

accept_outcome(c, user, fault) ==
    IF accept_check(c, user) # "go"
    THEN Unchanged(accept_check(c, user), c)
    ELSE accept_effect(c, user, fault)

\* the reads of reject_call: the call row and eligibility
reject_check(c, user) ==
    IF repo_find_by_id(calls, c) = None THEN "NotFound"
    ELSE IF not_eligible(c, user) THEN "Forbidden"
    ELSE "go"

\* the writes of reject_call: update_status and CallRejected
reject_effect(c, user) ==
    LET cs1  == repo_update_status(calls, c, "rejected")
        rcv  == IF cs1[c].receiver_id # None THEN cs1[c].receiver_id ELSE user
        log1 == send_to_user(wsLog, cs1[c].caller_id,
                             CallRejected(c, cs1[c].caller_id, rcv))
    IN Outcome(cs1, parts, log1, flips, c, "Ok")

reject_outcome(c, user) ==
    IF reject_check(c, user) # "go"
    THEN Unchanged(reject_check(c, user), c)
    ELSE reject_effect(c, user)

\* the notification loop of end_call over the participant rows read before
\* the update, in row order
RECURSIVE notify_ended(_, _, _, _, _)
notify_ended(us, i, c, user, log) ==
    IF i > NumUsers THEN log
    ELSE IF i \in us /\ i # user
         THEN notify_ended(us, i + 1, c, user, send_to_user(log, i, CallEnded(c, user)))
         ELSE notify_ended(us, i + 1, c, user, log)

\* the reads of end_call: the call row and the membership test
end_check(c, user) ==
    IF repo_find_by_id(calls, c) = None THEN "NotFound"
    ELSE IF ~ (\/ calls[c].caller_id = user
               \/ calls[c].receiver_id = user
               \/ user \in repo_get_participants(parts[c]))
         THEN "Forbidden"
    ELSE "go"

\* variant: only the participant rows are notified, without the extra
\* notification of the direct receiver
end_effect_rows_only(c, user, participants, started_at) ==
    LET duration == IF started_at # None THEN now - started_at ELSE None
        cs1  == repo_end_call(calls, c, now, duration)
        log1 == notify_ended(participants, 1, c, user, wsLog)
    IN Outcome(cs1, parts, log1, flips, c, "Ok")

\* the writes of end_call, given the participant rows and started_at it read
end_effect(c, user, participants, started_at) ==
    LET duration == IF started_at # None THEN now - started_at ELSE None
        cs1  == repo_end_call(calls, c, now, duration)
        log1 == notify_ended(participants, 1, c, user, wsLog)
        other == cs1[c].receiver_id
        log2 == IF other # None /\ other # user /\ other \notin participants
                THEN send_to_user(log1, other, CallEnded(c, user))
                ELSE log1
    IN Outcome(cs1, parts, log2, flips, c, "Ok")

end_outcome(c, user) ==
    IF end_check(c, user) # "go"
    THEN Unchanged(end_check(c, user), c)
    ELSE end_effect(c, user, repo_get_participants(parts[c]), calls[c].started_at)

add_participant_outcome(c, inviter, newUser, fault) ==
    IF repo_find_by_id(calls, c) = None THEN Unchanged("NotFound", c)
    ELSE IF inviter \notin repo_get_participants(parts[c])
         THEN Unchanged("Forbidden", c)
    ELSE
      LET pss1 == [parts EXCEPT ![c] =
                      repo_add_participant(@, newUser, "participant", "invited")]
          log1 == send_to_user(wsLog, newUser, CallInitiated(c, inviter, newUser))
      IN IF fault = "find_inviter"
         THEN Outcome(calls, pss1, wsLog, flips, c, "Internal")
         ELSE Outcome(calls, pss1, log1, flips, c, "Ok")

\* --------------------------------------------------------------- actions
Apply(o, op, user) ==
    /\ calls' = o.calls
    /\ parts' = o.parts
    /\ wsLog' = o.wsLog
    /\ flips' = o.flips
    /\ nOps' = nOps + 1
    /\ last' = [op |-> op, user |-> user, call |-> o.call, res |-> o.res]
    /\ UNCHANGED <<now, reqs, relayVars>>

initiate_call ==
    /\ nOps < MaxOps
    /\ Len(calls) < MaxCalls
    /\ \E caller \in Users, receiver \in Users \cup {None},
          group \in Groups \cup {None}, callType \in CallTypes,
          fault \in {"none", "find_caller", "get_members"} :
          Apply(initiate_outcome(caller, receiver, group, callType, fault),
                "initiate", caller)

accept_call ==
    /\ nOps < MaxOps
    /\ \E c \in 1..MaxCalls, user \in Users,
          fault \in {"none", "find_user", "update_participant"} :
          Apply(accept_outcome(c, user, fault), "accept", user)

reject_call ==
    /\ nOps < MaxOps
    /\ \E c \in 1..MaxCalls, user \in Users :
          Apply(reject_outcome(c, user), "reject", user)

end_call ==
    /\ nOps < MaxOps
    /\ \E c \in 1..MaxCalls, user \in Users :
          Apply(end_outcome(c, user), "end", user)

add_participant ==
    /\ nOps < MaxOps
    /\ \E c \in 1..MaxCalls, inviter \in Users, newUser \in Users,
          fault \in {"none", "find_inviter"} :
          Apply(add_participant_outcome(c, inviter, newUser, fault),
                "add_participant", inviter)

\* tokio::spawn: sleep 100 ms, then update_status(call_id, "ringing")
ringing_flip ==
    \E c \in flips :
        /\ calls' = repo_update_status(calls, c, "ringing")
        /\ flips' = flips \ {c}
        /\ UNCHANGED <<parts, wsLog, now, nOps, last, reqs, relayVars>>

Init ==
    /\ calls = <<>>
    /\ parts = <<>>
    /\ wsLog = <<>>
    /\ flips = {}
    /\ now = 1
    /\ nOps = 0
    /\ last = [op |-> "none", user |-> None, call |-> None, res |-> "none"]
    /\ reqs = <<>>
    /\ sess = <<>>
    /\ nPub = 0
    /\ conns = <<>>
    /\ registry = {}
    /\ nFrames = 0
    /\ wsEvent = [seq |-> 0, to |-> None, msg |-> <<>>]

Next ==
    \/ initiate_call
    \/ accept_call
    \/ reject_call
    \/ end_call
    \/ add_participant
    \/ ringing_flip

Spec == Init /\ [][Next]_vars

\* ------------------------------------------- concurrent requests (SpecConc)
\* Each request runs its reads and then its writes as two steps, so the
\* steps of different requests interleave at the await between them.
Request(op, user, c, receiver, group) ==
    [op |-> op, user |-> user, call |-> c, receiver |-> receiver,
     group |-> group, pc |-> "read", res |-> "none",
     st0 |-> IF c \in DOMAIN calls THEN calls[c].status ELSE "none",
     seen |-> {}, seenStart |-> None]

begin_request ==
    /\ Len(reqs) < MaxReqs
    /\ Cardinality({i \in DOMAIN reqs : reqs[i].pc # "done"}) < MaxInFlight
    /\ \/ /\ Cardinality({i \in DOMAIN reqs : reqs[i].op = "initiate"}) < MaxCalls
          /\ \E caller \in Users, receiver \in Users \cup {None},
                group \in Groups \cup {None} :
                /\ receiver # caller
                /\ (receiver = None) # (group = None)
                /\ reqs' = Append(reqs, Request("initiate", caller, None, receiver, group))
       \/ \E op \in {"accept", "reject", "end"}, user \in Users, c \in DOMAIN calls :
                reqs' = Append(reqs, Request(op, user, c, None, None))
    /\ UNCHANGED <<calls, parts, wsLog, flips, now, nOps, last, relayVars>>

\* the reads of request i: it fails here, or goes on to its writes
Read(i, check, seen, seenStart) ==
    /\ reqs[i].pc = "read"
    /\ reqs' = [reqs EXCEPT ![i].pc = IF check = "go" THEN "write" ELSE "done",
                            ![i].res = IF check = "go" THEN "none" ELSE check,
                            ![i].seen = seen, ![i].seenStart = seenStart]
    /\ UNCHANGED <<calls, parts, wsLog, flips, now, nOps, last, relayVars>>

\* the writes of request i
Write(i, o) ==
    /\ reqs[i].pc = "write"
    /\ calls' = o.calls
    /\ parts' = o.parts
    /\ wsLog' = o.wsLog
    /\ flips' = o.flips
    /\ reqs' = [reqs EXCEPT ![i].pc = "done", ![i].res = o.res, ![i].call = o.call]
    /\ UNCHANGED <<now, nOps, last, relayVars>>

initiate_read ==
    \E i \in DOMAIN reqs :
        /\ reqs[i].op = "initiate"
        /\ Read(i, initiate_check(reqs[i].user, reqs[i].receiver, reqs[i].group, "video"),
                {}, None)

initiate_write ==
    \E i \in DOMAIN reqs :
        /\ reqs[i].op = "initiate"
        /\ Write(i, initiate_effect(reqs[i].user, reqs[i].receiver, reqs[i].group,
                                    "video", "none"))

accept_read ==
    \E i \in DOMAIN reqs :
        /\ reqs[i].op = "accept"
        /\ Read(i, accept_check(reqs[i].call, reqs[i].user), {}, None)

accept_write ==
    \E i \in DOMAIN reqs :
        /\ reqs[i].op = "accept"
        /\ Write(i, accept_effect(reqs[i].call, reqs[i].user, "none"))

reject_read ==
    \E i \in DOMAIN reqs :
        /\ reqs[i].op = "reject"
        /\ Read(i, reject_check(reqs[i].call, reqs[i].user), {}, None)

reject_write ==
    \E i \in DOMAIN reqs :
        /\ reqs[i].op = "reject"
        /\ Write(i, reject_effect(reqs[i].call, reqs[i].user))

end_read ==
    \E i \in DOMAIN reqs :
        /\ reqs[i].op = "end"
        /\ Read(i, end_check(reqs[i].call, reqs[i].user),
                repo_get_participants(parts[reqs[i].call]),
                calls[reqs[i].call].started_at)

end_write ==
    \E i \in DOMAIN reqs :
        /\ reqs[i].op = "end"
        /\ Write(i, end_effect(reqs[i].call, reqs[i].user,
                               reqs[i].seen, reqs[i].seenStart))

\* the clock read by NOW() and Utc::now() moves on between two steps
clock_tick ==
    /\ now < MaxTime
    /\ now' = now + 1
    /\ UNCHANGED <<calls, parts, wsLog, flips, nOps, last, reqs, relayVars>>

NextConc ==
    \/ begin_request
    \/ initiate_read
    \/ initiate_write
    \/ accept_read
    \/ accept_write
    \/ reject_read
    \/ reject_write
    \/ end_read
    \/ end_write
    \/ ringing_flip
    \/ clock_tick

SpecConc == Init /\ [][NextConc]_vars

\* ------------------------------------------------ media relay (SpecRelay)
\* the call rooms and the users who open relay sessions
CallIds == {1, 2}
RelayUsers == {1, 2}
Wildcard == -1

\* format!("{CALL_SUBJECT_PREFIX}.{call_id}.{user_id}")
publish_subject(c, u) == [prefix |-> "call", call |-> c, user |-> u]

\* format!("{CALL_SUBJECT_PREFIX}.{call_id}.*")
subscribe_subject(c) == [prefix |-> "call", call |-> c, user |-> Wildcard]

\* PSUBSCRIBE pattern matching of a channel name
pattern_matches(pattern, channel) ==
    /\ pattern.prefix = channel.prefix
    /\ pattern.call = channel.call
    /\ (pattern.user = Wildcard \/ pattern.user = channel.user)

\* variant: the filter compares against the subscription pattern
is_own_echo_pattern(channel, s) ==
    channel = subscribe_subject(sess[s].call_id)

\* the echo filter: channel_name == my_subject_for_filter
is_own_echo(channel, s) ==
    channel = publish_subject(sess[s].call_id, sess[s].user_id)

callVarsAll == <<calls, parts, wsLog, flips, now, nOps, last, reqs>>

\* the session of user u on call c once run_media_session has subscribed
\* and spawned Task 1.  connected tells whether the publishing connection
\* was then obtained: if not, run_media_session returns at once, Task 2 is
\* never spawned and the handle of Task 1 is dropped without an abort.
new_session(c, u, connected) ==
    [call_id |-> c, user_id |-> u,
     pattern |-> subscribe_subject(c),
     redis_sub |-> <<>>,           \* messages awaiting the pump
     ws_out |-> <<>>,              \* frames sent to the client
     echoes |-> 0,                 \* own messages filtered out
     redis_to_ws |-> "running",
     ws_to_redis |-> IF connected THEN "running" ELSE "not_spawned",
     ended |-> ~connected]

\* run_media_session up to the spawn of its two tasks
run_media_session ==
    /\ Len(sess) < MaxSessions
    /\ \E c \in CallIds, u \in RelayUsers, connected \in BOOLEAN :
          sess' = Append(sess, new_session(c, u, connected))
    /\ UNCHANGED <<nPub, wsVars, callVarsAll>>

\* PUBLISH by session s: every live subscription whose pattern matches the
\* channel gets one copy.  origin records the publishing session; it is not
\* on the wire and no step reads it.
publish(ss, s, payload) ==
    LET channel == publish_subject(ss[s].call_id, ss[s].user_id)
    IN [k \in DOMAIN ss |->
          IF /\ ss[k].redis_to_ws = "running"
             /\ pattern_matches(ss[k].pattern, channel)
          THEN [ss[k] EXCEPT !.redis_sub =
                   Append(@, [channel |-> channel, payload |-> payload,
                              origin |-> s])]
          ELSE ss[k]]

\* Task 2, one frame from the client
ws_to_redis ==
    \E s \in DOMAIN sess :
        /\ sess[s].ws_to_redis = "running"
        /\ \E kind \in {"Binary", "Close", "Ping", "Text"} :
              IF kind = "Binary"
              THEN /\ nPub < MaxPublishes
                   \* a frame is told apart by its sequence number
                   /\ sess' = publish(sess, s, nPub + 1)
                   /\ nPub' = nPub + 1
              ELSE IF kind = "Close"
              THEN /\ sess' = [sess EXCEPT ![s].ws_to_redis = "finished"]
                   /\ UNCHANGED nPub
              ELSE UNCHANGED <<sess, nPub>>
        /\ UNCHANGED <<wsVars, callVarsAll>>

\* Task 1, one message from the subscription
redis_to_ws ==
    \E s \in DOMAIN sess :
        /\ sess[s].redis_to_ws = "running"
        /\ sess[s].redis_sub # <<>>
        /\ LET m == Head(sess[s].redis_sub)
               rest == [sess EXCEPT ![s].redis_sub = Tail(@)]
           IN IF is_own_echo(m.channel, s)
              THEN sess' = [rest EXCEPT ![s].echoes = @ + 1]
              ELSE \E sent \in BOOLEAN :
                     IF sent
                     THEN sess' = [rest EXCEPT ![s].ws_out = Append(@, m)]
                     ELSE sess' = [rest EXCEPT ![s].redis_to_ws = "finished"]
        /\ UNCHANGED <<nPub, wsVars, callVarsAll>>

\* tokio::select!: the first task to finish ends the session, the other is
\* aborted
session_select ==
    \E s \in DOMAIN sess :
        /\ ~sess[s].ended
        /\ \/ /\ sess[s].redis_to_ws = "finished"
              /\ sess' = [sess EXCEPT ![s].ended = TRUE,
                            ![s].ws_to_redis =
                               IF @ = "running" THEN "aborted" ELSE @]
           \/ /\ sess[s].ws_to_redis = "finished"
              /\ sess' = [sess EXCEPT ![s].ended = TRUE,
                            ![s].redis_to_ws =
                               IF @ = "running" THEN "aborted" ELSE @]
        /\ UNCHANGED <<nPub, wsVars, callVarsAll>>

\* --------------------------------------- relay admission (SpecMedia)
\* CallStatus::Active | CallStatus::Ringing | CallStatus::Initiating
Joinable == {"active", "ringing", "initiating"}

\* VideoCallService::get_call followed by the joinable test of
\* join_call_media: the HTTP status the request is answered with, or
\* "Upgrade"
join_check(c, user) ==
    IF repo_find_by_id(calls, c) = None THEN "NotFound"
    ELSE IF calls[c].caller_id # user /\ calls[c].receiver_id # user
         THEN "Forbidden"
    ELSE IF calls[c].status \notin Joinable THEN "BadRequest"
    ELSE "Upgrade"

\* GET /api/video-calls/{call_id}/ws: the checks, then the upgrade into
\* run_media_session
join_call_media ==
    /\ nOps < MaxOps
    /\ Len(sess) < MaxSessions
    /\ \E c \in 1..MaxCalls, user \in Users, connected \in BOOLEAN :
          /\ sess' = IF join_check(c, user) = "Upgrade"
                      THEN Append(sess, new_session(c, user, connected))
                      ELSE sess
          /\ nOps' = nOps + 1
          /\ last' = [op |-> "join", user |-> user, call |-> c,
                       res |-> join_check(c, user)]
    /\ UNCHANGED <<calls, parts, wsLog, flips, now, reqs, nPub, wsVars>>

NextMedia ==
    \/ initiate_call
    \/ accept_call
    \/ reject_call
    \/ end_call
    \/ add_participant
    \/ ringing_flip
    \/ join_call_media

SpecMedia == Init /\ [][NextMedia]_vars

NextRelay ==
    \/ run_media_session
    \/ ws_to_redis
    \/ redis_to_ws
    \/ session_select

SpecRelay == Init /\ [][NextRelay]_vars

\* --------------------------------------- signaling connections (SpecWs)
\* The registry (websocket::ConnectionManager): the set of registered
\* handles; a handle is the index of its connection in conns.
UserStatus(u, online) == [kind |-> "UserStatus", user_id |-> u, arg |-> online]
TypingIndicator(u, toward) == [kind |-> "TypingIndicator", user_id |-> u, arg |-> toward]
Ping == [kind |-> "Ping", user_id |-> None, arg |-> None]
Pong == [kind |-> "Pong", user_id |-> None, arg |-> None]
ErrorMsg == [kind |-> "Error", user_id |-> None, arg |-> None]

\* the users who open signaling connections; the others stay offline
WsUsers == {1, 2}

\* the users a client frame may address; user 3 never connects
WsPeers == {1, 2, 3}

add_connection(reg, h) == reg \cup {h}

remove_connection(reg, h) == reg \ {h}

\* UnboundedSender::send: enqueues unless the receiver has been dropped
tx_send(conn, m) ==
    IF conn.send_task = "running" THEN [conn EXCEPT !.rx = Append(@, m)] ELSE conn

registry_send_to_user(cs, reg, u, m) ==
    [k \in DOMAIN cs |->
        IF k \in reg /\ cs[k].user_id = u THEN tx_send(cs[k], m) ELSE cs[k]]

registry_broadcast(cs, reg, m) ==
    [k \in DOMAIN cs |-> IF k \in reg THEN tx_send(cs[k], m) ELSE cs[k]]

nonWsVars == <<calls, parts, wsLog, flips, now, nOps, last, reqs, sess, nPub>>

\* variant: the online status is broadcast before the connection is added
handle_socket_open_broadcast_first ==
    /\ Len(conns) < MaxConns
    /\ \E u \in WsUsers :
          LET h == Len(conns) + 1
              cs1 == Append(conns,
                       [user_id |-> u, rx |-> <<>>, socket |-> <<>>,
                        send_task |-> "running", recv_task |-> "running",
                        heartbeat_task |-> "running",
                        closed |-> FALSE, offline |-> 0])
          IN /\ conns' = registry_broadcast(cs1, registry, UserStatus(u, TRUE))
             /\ registry' = add_connection(registry, h)
    /\ UNCHANGED <<nFrames, wsEvent, nonWsVars>>

\* handle_socket up to the spawn of its tasks: register, announce online
handle_socket_open ==
    /\ Len(conns) < MaxConns
    /\ \E u \in WsUsers :
          LET h == Len(conns) + 1
              cs1 == Append(conns,
                       [user_id |-> u, rx |-> <<>>, socket |-> <<>>,
                        send_task |-> "running", recv_task |-> "running",
                        heartbeat_task |-> "running",
                        closed |-> FALSE, offline |-> 0])
          IN /\ registry' = add_connection(registry, h)
             /\ conns' = registry_broadcast(cs1, registry', UserStatus(u, TRUE))
    /\ UNCHANGED <<nFrames, wsEvent, nonWsVars>>

Abort(t) == IF t = "running" THEN "aborted" ELSE t

\* variant: the send task takes the message submitted last
send_task_step_newest_first ==
    \E k \in DOMAIN conns :
        /\ conns[k].send_task = "running"
        /\ conns[k].rx # <<>>
        /\ \E ok \in BOOLEAN :
              conns' = IF ok
                       THEN [conns EXCEPT
                               ![k].socket = Append(@, conns[k].rx[Len(conns[k].rx)]),
                               ![k].rx = SubSeq(@, 1, Len(@) - 1)]
                       ELSE [conns EXCEPT ![k].send_task = "finished",
                                          ![k].rx = <<>>]
        /\ UNCHANGED <<registry, nFrames, wsEvent, nonWsVars>>

\* send_task: one message from the channel to the socket
send_task_step ==
    \E k \in DOMAIN conns :
        /\ conns[k].send_task = "running"
        /\ conns[k].rx # <<>>
        /\ \E ok \in BOOLEAN :
              conns' = IF ok
                       THEN [conns EXCEPT ![k].socket = Append(@, Head(conns[k].rx)),
                                          ![k].rx = Tail(@)]
                       ELSE [conns EXCEPT ![k].send_task = "finished",
                                          ![k].rx = <<>>]
        /\ UNCHANGED <<registry, nFrames, wsEvent, nonWsVars>>

\* recv_task: one frame from the client, through process_client_message
recv_task_step ==
    \E k \in DOMAIN conns :
        /\ conns[k].recv_task = "running"
        /\ nFrames < MaxFrames
        /\ nFrames' = nFrames + 1
        /\ \/ \E toward \in WsPeers :
                LET m == TypingIndicator(conns[k].user_id, toward)
                IN /\ conns' = registry_send_to_user(conns, registry, toward, m)
                   /\ wsEvent' = [seq |-> nFrames', to |-> toward, msg |-> m]
           \/ /\ conns' = [conns EXCEPT ![k] = tx_send(@, Pong)]
              /\ UNCHANGED wsEvent
           \/ /\ conns' = [conns EXCEPT ![k] = tx_send(@, ErrorMsg)]
              /\ UNCHANGED wsEvent
           \/ /\ conns' = [conns EXCEPT ![k].recv_task = "finished"]
              /\ UNCHANGED wsEvent
        /\ UNCHANGED <<registry, nonWsVars>>

\* heartbeat_task: one tick of the 30 s interval
heartbeat_step ==
    \E k \in DOMAIN conns :
        /\ conns[k].heartbeat_task = "running"
        /\ nFrames < MaxFrames
        /\ nFrames' = nFrames + 1
        /\ conns' = IF conns[k].send_task = "running"
                    THEN [conns EXCEPT ![k] = tx_send(@, Ping)]
                    ELSE [conns EXCEPT ![k].heartbeat_task = "finished"]
        /\ UNCHANGED <<registry, wsEvent, nonWsVars>>

\* the end of handle_socket for connection k: the remaining tasks are
\* aborted, the registry becomes reg1 and the offline status is broadcast
\* `times` times to the handles it still holds
RECURSIVE broadcast_times(_, _, _, _)
broadcast_times(cs, reg, m, times) ==
    IF times = 0 THEN cs
    ELSE broadcast_times(registry_broadcast(cs, reg, m), reg, m, times - 1)

close_connection(k, reg1, times) ==
    LET cs1 == [conns EXCEPT ![k].send_task = Abort(@),
                             ![k].recv_task = Abort(@),
                             ![k].heartbeat_task = Abort(@),
                             ![k].rx = <<>>,
                             ![k].closed = TRUE,
                             ![k].offline = @ + times]
    IN /\ registry' = reg1
       /\ conns' = broadcast_times(cs1, reg1, UserStatus(conns[k].user_id, FALSE), times)

\* some task of connection k has finished and handle_socket has not returned
select_ready(k) ==
    /\ ~conns[k].closed
    /\ \/ conns[k].send_task = "finished"
       \/ conns[k].recv_task = "finished"
       \/ conns[k].heartbeat_task = "finished"

\* variant: the closing connection takes every connection of its user out
\* of the registry
handle_socket_close_user ==
    \E k \in DOMAIN conns :
        /\ select_ready(k)
        /\ close_connection(k, {h \in registry : conns[h].user_id # conns[k].user_id}, 1)
        /\ UNCHANGED <<nFrames, wsEvent, nonWsVars>>

\* variant: the offline status is announced twice for one closure
handle_socket_close_twice ==
    \E k \in DOMAIN conns :
        /\ select_ready(k)
        /\ close_connection(k, remove_connection(registry, k), 2)
        /\ UNCHANGED <<nFrames, wsEvent, nonWsVars>>

\* variant: the connection is removed and the offline status broadcast
\* while its other tasks are left running
handle_socket_close_no_abort ==
    \E k \in DOMAIN conns :
        /\ select_ready(k)
        /\ registry' = remove_connection(registry, k)
        /\ conns' = registry_broadcast(
                       [conns EXCEPT ![k].closed = TRUE, ![k].offline = @ + 1],
                       registry', UserStatus(conns[k].user_id, FALSE))
        /\ UNCHANGED <<nFrames, wsEvent, nonWsVars>>

\* tokio::select! wakes on the first finished task, aborts the others, then
\* the connection is removed and the offline status broadcast
handle_socket_close ==
    \E k \in DOMAIN conns :
        /\ select_ready(k)
        /\ close_connection(k, remove_connection(registry, k), 1)
        /\ UNCHANGED <<nFrames, wsEvent, nonWsVars>>

NextWs ==
    \/ handle_socket_open
    \/ send_task_step
    \/ recv_task_step
    \/ heartbeat_step
    \/ handle_socket_close

SpecWs == Init /\ [][NextWs]_vars

\* select! is polled again whenever one of the three join handles completes
SpecWsLive == SpecWs /\ WF_vars(handle_socket_close)

\* ------------------------------------------------ chat relay (SpecChat)
ChatMessage(id, sender, receiver) ==
    [kind |-> "ChatMessage", user_id |-> sender, arg |-> <<id, receiver>>]

\* send_to_users: send_to_user for every listed user, in list order
RECURSIVE registry_send_to_users(_, _, _, _, _)
registry_send_to_users(cs, reg, us, i, m) ==
    IF i > Len(us) THEN cs
    ELSE registry_send_to_users(registry_send_to_user(cs, reg, us[i], m),
                                reg, us, i + 1, m)

\* group_service.list_group_members: Forbidden unless the requester is a
\* member, otherwise the user ids of all member rows
is_member(g, u) == \E i \in DOMAIN get_group_members(g) : get_group_members(g)[i] = u

\* MessageService::send_message: the connections after the relay of
\* message id; the notification side effects are not modelled
send_message_relay(id, sender, receiver, group) ==
    IF (receiver # None /\ group # None) \/ (receiver = None /\ group = None)
    THEN conns
    ELSE IF receiver # None
    THEN registry_send_to_user(
            registry_send_to_user(conns, registry, receiver,
                                  ChatMessage(id, sender, receiver)),
            registry, sender, ChatMessage(id, sender, receiver))
    ELSE IF ~is_member(group, sender) THEN conns
    ELSE registry_send_to_user(
            registry_send_to_users(conns, registry, get_group_members(group), 1,
                                   ChatMessage(id, sender, group)),
            registry, sender, ChatMessage(id, sender, group))

send_message ==
    /\ nFrames < MaxFrames
    /\ nFrames' = nFrames + 1
    /\ \E sender \in Users, receiver \in Users \cup {None}, group \in Groups \cup {None} :
          conns' = send_message_relay(nFrames', sender, receiver, group)
    /\ UNCHANGED <<registry, wsEvent, nonWsVars>>

NextChat ==
    \/ handle_socket_open
    \/ send_message
    \/ send_task_step
    \/ handle_socket_close

SpecChat == Init /\ [][NextChat]_vars

\* ------------------------------------------------------ claim vocabulary
\* a step that completes one service operation
OpStep(ops) == nOps' # nOps /\ last'.op \in ops

\* number of times message m was handed to send_to_user for user u
Sent(log, u, m) == Cardinality({i \in DOMAIN log : log[i] = [to |-> u, msg |-> m]})

\* users to whom some message of call c of the given kind was handed
Recipients(log, kind, c) ==
    {log[i].to : i \in {j \in DOMAIN log :
                          log[j].msg.kind = kind /\ log[j].msg.call_id = c}}

\* the designated direct target, or a pre-registered invitee of a group call
Invitee(c, u) ==
    IF calls[c].receiver_id # None
    THEN calls[c].receiver_id = u
    ELSE parts[c][u].role = "participant"

\* C1: once a call is Rejected or Ended, no later accept, reject or end
\* changes its status, and each such operation fails.
C1_NoTransitionOutOfTerminal ==
    [][\A c \in DOMAIN calls :
         (OpStep({"accept", "reject", "end"}) /\ last'.call = c
            /\ calls[c].status \in Terminal)
         => (calls'[c].status = calls[c].status /\ last'.res # "Ok")]_vars

\* C4: accept or reject by a user who is neither the direct target nor a
\* pre-registered invitee (the initiator included) fails with Forbidden,
\* changes no call or participant state and sends no message.
C4_IneligibleForbidden ==
    [][\A c \in DOMAIN calls :
         (OpStep({"accept", "reject"}) /\ last'.call = c
            /\ ~Invitee(c, last'.user))
         => (/\ last'.res = "Forbidden"
             /\ calls' = calls /\ parts' = parts /\ wsLog' = wsLog)]_vars

\* C5: an operation that returns an error is not partially applied: calls,
\* participant roster and sent messages are as before the operation.
C5_ErrorsNotPartiallyApplied ==
    [][(OpStep({"initiate", "accept", "reject", "end", "add_participant"})
          /\ last'.res # "Ok")
         => (calls' = calls /\ parts' = parts /\ wsLog' = wsLog)]_vars

\* C9: after a successful initiate the call is Initiating, the caller is a
\* joined participant, every target is an invited participant, and
\* CallInitiated with the relay path went to every target and not the caller.
C9_InitiatePostcondition ==
    [][(OpStep({"initiate"}) /\ last'.res = "Ok")
         => LET c == last'.call
                caller == last'.user
                targets == {u \in Users \ {caller} :
                              \/ calls'[c].receiver_id = u
                              \/ /\ calls'[c].group_id # None
                                 /\ \E i \in DOMAIN get_group_members(calls'[c].group_id) :
                                       get_group_members(calls'[c].group_id)[i] = u}
            IN /\ calls'[c].status = "initiating"
               /\ parts'[c][caller].status = "joined"
               /\ \A u \in targets :
                     /\ parts'[c][u].status = "invited"
                     /\ Sent(wsLog', u, CallInitiated(c, caller, u)) >= 1
               /\ caller \notin Recipients(wsLog', "CallInitiated", c)]_vars

\* C10: a successful accept by an eligible user on an Initiating or Ringing
\* call leaves the call Active with started_at set, the acceptor joined and
\* exactly one CallAccepted (with the relay path) sent to the caller; accept
\* by an eligible user on a call in any other status fails with BadRequest.
C10_AcceptPostcondition ==
    [][\A c \in DOMAIN calls :
         (OpStep({"accept"}) /\ last'.call = c /\ Invitee(c, last'.user))
         => LET u == last'.user
                rcv == IF calls[c].receiver_id # None THEN calls[c].receiver_id ELSE u
                m == CallAccepted(c, calls[c].caller_id, rcv)
            IN /\ (last'.res = "Ok") =>
                    /\ calls[c].status \in Unanswered
                    /\ calls'[c].status = "active"
                    /\ calls'[c].started_at # None
                    /\ parts'[c][u].status = "joined"
                    /\ Sent(wsLog', calls[c].caller_id, m)
                         = Sent(wsLog, calls[c].caller_id, m) + 1
                    /\ Len(wsLog') = Len(wsLog) + 1
               /\ (calls[c].status \notin Unanswered) => last'.res = "BadRequest"]_vars

\* two finished requests i and j on the same call, both issued while the
\* call was Ringing
RacedOnRinging(i, j) ==
    /\ i # j
    /\ reqs[i].call = reqs[j].call
    /\ reqs[i].st0 = "ringing" /\ reqs[j].st0 = "ringing"
    /\ reqs[i].pc = "done" /\ reqs[j].pc = "done"

\* C2: of two accepts issued by different eligible participants on the same
\* Ringing call, exactly one succeeds; the other fails with BadRequest or
\* Forbidden.
C2_ExactlyOneAcceptSucceeds ==
    \A i, j \in DOMAIN reqs :
        (/\ RacedOnRinging(i, j)
         /\ reqs[i].op = "accept" /\ reqs[j].op = "accept"
         /\ reqs[i].user # reqs[j].user
         /\ Invitee(reqs[i].call, reqs[i].user)
         /\ Invitee(reqs[j].call, reqs[j].user))
        => \/ reqs[i].res = "Ok" /\ reqs[j].res \in {"BadRequest", "Forbidden"}
           \/ reqs[j].res = "Ok" /\ reqs[i].res \in {"BadRequest", "Forbidden"}

\* C3: an accept and a reject issued on the same Ringing call cannot both
\* succeed.
C3_AcceptRejectSerialized ==
    \A i, j \in DOMAIN reqs :
        (/\ RacedOnRinging(i, j)
         /\ reqs[i].op = "accept" /\ reqs[j].op = "reject")
        => ~ (reqs[i].res = "Ok" /\ reqs[j].res = "Ok")

\* C6: a relay session never forwards to its own transport connection a
\* message whose publish address equals its own publish address.
C6_NoSelfEcho ==
    \A s \in DOMAIN sess : \A i \in DOMAIN sess[s].ws_out :
        sess[s].ws_out[i].channel # publish_subject(sess[s].call_id, sess[s].user_id)

\* a session that filtered out a message of its own and forwarded another's
C6_Witness ==
    \E s \in DOMAIN sess : sess[s].echoes > 0 /\ sess[s].ws_out # <<>>

\* a connection that handle_socket has registered and not yet removed, and
\* whose channel is still open
Live(k) == ~conns[k].closed /\ conns[k].send_task = "running"

C11_DurationIsElapsed ==
    \A c \in DOMAIN calls :
        /\ calls[c].started_at = None => calls[c].duration_seconds = None
        /\ calls[c].status = "ended" =>
              calls[c].duration_seconds =
                 IF calls[c].started_at = None THEN None
                 ELSE calls[c].ended_at - calls[c].started_at

\* every user attached to call c: the caller, the direct receiver and every
\* user with a participant row, whatever its join status
Attached(c) ==
    {v \in Users : \/ calls[c].caller_id = v
                  \/ calls[c].receiver_id = v
                  \/ parts[c][v] # NoPart}

C13_ExactlyOneTarget ==
    \A c \in DOMAIN calls :
        (calls[c].receiver_id = None) # (calls[c].group_id = None)

\* the statuses find_active_call looks for
ActiveStatuses == {"initiating", "ringing", "active"}

\* C14: for every unordered pair of users at most one direct call between
\* them is Initiating, Ringing or Active, whatever the direction and the
\* interleaving of the initiate operations.
C14_OneDirectCallPerPair ==
    \A c, d \in DOMAIN calls :
        (/\ c # d
         /\ calls[c].receiver_id # None /\ calls[d].receiver_id # None
         /\ {calls[c].caller_id, calls[c].receiver_id}
              = {calls[d].caller_id, calls[d].receiver_id})
        => ~ (calls[c].status \in ActiveStatuses /\ calls[d].status \in ActiveStatuses)

\* C15: started_at is set once, by the step that makes the call Active, and
\* no later or concurrent step gives it another value.
C15_StartedAtSetOnce ==
    [][\A c \in DOMAIN calls :
         /\ calls[c].started_at # None
               => calls'[c].started_at = calls[c].started_at
         /\ (calls[c].started_at = None /\ calls'[c].started_at # None)
               => calls'[c].status = "active"]_vars

\* C16: reject by the eligible target on a call that is Active fails and
\* leaves the call Active.
C16_RejectOnlyUnanswered ==
    [][\A c \in DOMAIN calls :
         (OpStep({"reject"}) /\ last'.call = c /\ Invitee(c, last'.user)
            /\ calls[c].status = "active")
         => (last'.res # "Ok" /\ calls'[c].status = "active")]_vars

\* who may end call c: the caller while the call is not terminal, a joined
\* participant while it is Active
MayEnd(c, u) ==
    \/ calls[c].caller_id = u /\ calls[c].status \notin Terminal
    \/ parts[c][u].status = "joined" /\ calls[c].status = "active"

\* C17: end(c, u) by anyone else, or in any other status, fails and leaves
\* the call status unchanged.
C17_EndEligibility ==
    [][\A c \in DOMAIN calls :
         (OpStep({"end"}) /\ last'.call = c /\ ~MayEnd(c, last'.user))
         => (last'.res # "Ok" /\ calls'[c].status = calls[c].status)]_vars

\* C18: a successful add_participant(c, inviter, new_user) has a joined
\* inviter, leaves new_user an invited participant who was sent exactly one
\* CallInitiated-shaped invitation, and changes neither the call row nor the
\* join status of any other participant.
C18_AddParticipantFrame ==
    [][\A c \in DOMAIN calls :
         (OpStep({"add_participant"}) /\ last'.call = c /\ last'.res = "Ok")
         => /\ Len(wsLog') = Len(wsLog) + 1
            /\ LET inviter == last'.user
                   new_user == wsLog'[Len(wsLog')].to
               IN /\ wsLog'[Len(wsLog')].msg = CallInitiated(c, inviter, new_user)
                  /\ parts[c][inviter].status = "joined"
                  /\ parts'[c][new_user].status = "invited"
                  /\ \A v \in Users \ {new_user} : parts'[c][v] = parts[c][v]
                  /\ calls' = calls]_vars

IsPrefix(s, t) == Len(s) <= Len(t) /\ SubSeq(t, 1, Len(s)) = s

\* C19: the messages submitted to one connection reach its socket in
\* submission order: what has been written followed by what is queued only
\* ever grows at its tail, until the channel is dropped and the queued
\* messages with it; what has been written is never reordered.
C19_FifoPerConnection ==
    [][\A k \in DOMAIN conns :
         /\ IsPrefix(conns[k].socket, conns'[k].socket)
         /\ \/ IsPrefix(conns[k].socket \o conns[k].rx,
                         conns'[k].socket \o conns'[k].rx)
            \/ /\ conns'[k].send_task # "running"
               /\ conns'[k].rx = <<>>
               /\ conns'[k].socket = conns[k].socket]_vars

\* a connection has written a broadcast first and a message of another
\* origin after it, with more still queued behind them
C19_Witness ==
    \E k \in DOMAIN conns :
        /\ Len(conns[k].socket) >= 2
        /\ conns[k].socket[1].kind = "UserStatus"
        /\ conns[k].socket[Len(conns[k].socket)].kind # "UserStatus"
        /\ conns[k].rx # <<>>

\* connection j has just been handed message m, if its channel is open,
\* and is otherwise as before
Handed(j, m) ==
    conns'[j] = IF conns[j].send_task = "running"
                THEN [conns[j] EXCEPT !.rx = Append(@, m)]
                ELSE conns[j]

\* C20: the step that registers a connection of user u hands
\* UserStatus{u, true} to every registered connection, the new one
\* included; the step that unregisters one hands UserStatus{u, false} to
\* every connection remaining in the registry.
C20_PresenceBroadcasts ==
    [][/\ Len(conns') > Len(conns) =>
             LET h == Len(conns')
                 u == conns'[h].user_id
             IN /\ registry' = registry \cup {h}
                /\ conns'[h].rx = <<UserStatus(u, TRUE)>>
                /\ \A j \in registry : Handed(j, UserStatus(u, TRUE))
       /\ \A k \in DOMAIN conns :
             (~conns[k].closed /\ conns'[k].closed) =>
                /\ registry' = registry \ {k}
                /\ \A j \in registry' :
                      Handed(j, UserStatus(conns[k].user_id, FALSE))]_vars

\* a connection still registered holds, in order, the online and then the
\* offline status of another connection that has since closed
C20_Witness ==
    \E k, j \in DOMAIN conns :
        /\ k # j
        /\ conns[k].closed /\ j \in registry /\ k > j
        /\ LET all == conns[j].socket \o conns[j].rx
           IN \E a, b \in DOMAIN all :
                 /\ a < b
                 /\ all[a] = UserStatus(conns[k].user_id, TRUE)
                 /\ all[b] = UserStatus(conns[k].user_id, FALSE)

\* no task of connection k is running any more
TasksStopped(k) ==
    /\ conns[k].send_task # "running"
    /\ conns[k].recv_task # "running"
    /\ conns[k].heartbeat_task # "running"

\* C21: a connection leaves the registry only after one of its tasks has
\* terminated and, by then, with its other tasks cancelled; the offline
\* status is broadcast after the removal, so the leaving connection is not
\* handed it; and a connection one of whose tasks has terminated is
\* eventually unregistered.
C21_TaskExitTearsDown ==
    /\ [][\A k \in DOMAIN conns :
            (k \in registry /\ k \notin registry') =>
               /\ select_ready(k)
               /\ TasksStopped(k)'
               /\ conns'[k].closed /\ conns'[k].offline = conns[k].offline + 1
               /\ conns'[k].rx = <<>>
               /\ \A j \in registry' :
                     Handed(j, UserStatus(conns[k].user_id, FALSE))]_vars
    /\ \A k \in 1..MaxConns :
          (k \in DOMAIN conns /\ select_ready(k))
             ~> (k \in DOMAIN conns /\ conns[k].closed /\ k \notin registry)

\* the heartbeat found the channel dropped after a failed socket write, and
\* the connection has since been unregistered with every task stopped
C21_Witness ==
    \E k \in DOMAIN conns :
        /\ conns[k].closed /\ k \notin registry
        /\ conns[k].send_task = "finished"
        /\ conns[k].heartbeat_task = "finished"
        /\ conns[k].recv_task = "aborted"

\* C22: a frame published by one relay session of call C is handed to the
\* subscription of every session open on C and of no session of another
\* call; every session other than the publishing one forwards it unmodified
\* to its transport when its turn comes (unless the transport write fails
\* and ends the session), the publishing session does not, and no session
\* forwards the same frame twice.
C22_RelayExactlyOnce ==
    [][/\ nPub' # nPub =>
             \E s \in DOMAIN sess :
                LET m == [channel |-> publish_subject(sess[s].call_id, sess[s].user_id),
                          payload |-> nPub', origin |-> s]
                IN \A k \in DOMAIN sess :
                      sess'[k] = IF /\ sess[k].call_id = sess[s].call_id
                                    /\ sess[k].redis_to_ws = "running"
                                 THEN [sess[k] EXCEPT !.redis_sub = Append(@, m)]
                                 ELSE sess[k]
       /\ \A k \in DOMAIN sess :
             /\ (sess[k].redis_sub # <<>> /\ sess'[k].redis_sub = Tail(sess[k].redis_sub))
                  => LET m == Head(sess[k].redis_sub)
                     IN IF m.origin = k
                        THEN sess'[k].ws_out = sess[k].ws_out
                        ELSE \/ sess'[k].ws_out = Append(sess[k].ws_out, m)
                             \/ sess'[k].redis_to_ws = "finished"
             /\ \A i, j \in DOMAIN sess'[k].ws_out :
                   /\ sess'[k].ws_out[i].channel.call = sess'[k].call_id
                   /\ (i # j => sess'[k].ws_out[i].payload # sess'[k].ws_out[j].payload)]_vars

\* C23: a session ends only when one of its pumps has terminated, and from
\* then on neither of its pumps is running.
C23_NoPumpOutlivesSession ==
    \A s \in DOMAIN sess :
        sess[s].ended =>
           /\ sess[s].redis_to_ws # "running"
           /\ sess[s].ws_to_redis # "running"
           /\ "finished" \in {sess[s].redis_to_ws, sess[s].ws_to_redis}

\* C24: at most one relay session that has not ended exists per
\* (call, user) pair.
C24_OneSessionPerCallUser ==
    \A s, k \in DOMAIN sess :
        (/\ s # k
         /\ sess[s].call_id = sess[k].call_id
         /\ sess[s].user_id = sess[k].user_id)
        => (sess[s].ended \/ sess[k].ended)

\* C25: a relay connection is upgraded into a session exactly when the call
\* exists, its status is Initiating, Ringing or Active, and the user is
\* attached to it (caller, direct receiver or participant row); otherwise
\* it is refused and no session is opened.
C25_JoinableAdmission ==
    [][OpStep({"join"}) =>
         LET c == last'.call
             u == last'.user
             entitled == /\ c \in DOMAIN calls
                         /\ calls[c].status \in Joinable
                         /\ u \in Attached(c)
         IN /\ entitled <=> last'.res = "Upgrade"
            /\ sess' # sess <=> last'.res = "Upgrade"
            /\ last'.res = "Upgrade" =>
                  /\ Len(sess') = Len(sess) + 1
                  /\ sess'[Len(sess')].call_id = c
                  /\ sess'[Len(sess')].user_id = u]_vars

\* C26: the status flip spawned by initiate moves a call from Initiating to
\* Ringing and leaves every other status as it is.
C26_FlipOnlyFromInitiating ==
    [][\A c \in DOMAIN calls :
         (c \in flips /\ c \notin flips')
         => calls'[c].status = IF calls[c].status = "initiating"
                               THEN "ringing"
                               ELSE calls[c].status]_vars

\* a step in which the registry routes a message: send_to_user, or the
\* broadcast of a registration or of an unregistration
Routing ==
    \/ wsEvent'.seq # wsEvent.seq
    \/ Len(conns') # Len(conns)
    \/ \E j \in DOMAIN conns : ~conns[j].closed /\ conns'[j].closed

\* C27: when the registry routes a message, no connection one of whose
\* tasks has already exited is handed it.
C27_NoSendAfterClose ==
    [][Routing =>
         \A k \in DOMAIN conns :
            (conns[k].closed \/ select_ready(k))
               => Len(conns'[k].rx) <= Len(conns[k].rx)]_vars

\* how many copies of the chat message id the connection c holds, sent or queued
ChatCopies(c, id) ==
    LET all == c.socket \o c.rx
    IN Cardinality({i \in DOMAIN all :
                       all[i].kind = "ChatMessage" /\ all[i].arg[1] = id})

\* C28: relaying one group chat message hands it to each connection at most
\* once, the sender's own connections included.
C28_ChatFanOutAtMostOnce ==
    [][\A sender \in Users, group \in Groups :
          (/\ nFrames' = nFrames + 1
           /\ is_member(group, sender)
           /\ conns' = send_message_relay(nFrames', sender, None, group))
          => \A k \in DOMAIN conns : ChatCopies(conns'[k], nFrames') <= 1]_vars

\* the join status of user u on call c in the participant table ps
JoinStatus(ps, c, u) == IF c \in DOMAIN ps THEN ps[c][u].status ELSE "none"

\* C29: a participant other than the initiator becomes joined only through
\* that participant's own successful accept, with the call Active at that
\* moment; initiate and add_participant never make an invitee joined.
C29_JoinedOnlyByAccept ==
    [][\A c \in DOMAIN calls' : \A u \in Users \ {calls'[c].caller_id} :
          (JoinStatus(parts, c, u) # "joined" /\ JoinStatus(parts', c, u) = "joined")
          => /\ OpStep({"accept"})
             /\ last'.user = u /\ last'.call = c /\ last'.res = "Ok"
             /\ calls'[c].status = "active"]_vars

\* every handle_socket whose select! has completed has run its cleanup
CleanupDone == \A k \in DOMAIN conns : ~select_ready(k)

\* the positions of the UserStatus broadcasts for user u among the
\* messages handed to connection j since it was registered
StatusOf(j, u) ==
    LET all == conns[j].socket \o conns[j].rx
    IN {i \in DOMAIN all : all[i].kind = "UserStatus" /\ all[i].user_id = u}

\* the is_online flag of the last such broadcast
LastStatus(j, u) ==
    LET all == conns[j].socket \o conns[j].rx
        i == CHOOSE x \in StatusOf(j, u) : \A y \in StatusOf(j, u) : y <= x
    IN all[i].arg

====
